---- MODULE Spec2Model ----
(***************************************************************************)
(* Model of the MQTT client of iot-platform-go (internal/mqtt/client.go)   *)
(* and of the message wiring of the server (Application).                  *)
(*                                                                         *)
(* A string is a sequence of atoms.  The atom "/" is the level separator,  *)
(* "+" and "#" are the wildcard characters, every other atom stands for a  *)
(* run of ordinary characters ("devices", "data", "d").                    *)
(***************************************************************************)
EXTENDS Integers, Sequences, FiniteSets, TLC

VARIABLES
  mPattern,      \* topicMatches: argument pattern
  mTopic,        \* topicMatches: argument topic
  mResult,       \* topicMatches: outcome of the last call ("none" before it)
  mCalls,        \* topicMatches: number of calls made with these arguments
  connected,     \* c.client.IsConnected()
  handlers,      \* c.handlers: map[string]MessageHandler
  routes,        \* the transport's routes: patterns with a dispatch callback
  apiCall,       \* the Subscribe/Unsubscribe call in progress on the caller's goroutine
  apiCalls,      \* number of calls the caller has made to the client
  goroutines,    \* dispatch callbacks started by the transport, not yet returned
  nextMsg,       \* sequence number of the next inbound wire message
  delivered,     \* topic of every inbound wire message, in delivery order
  executed,      \* handler executions, in the order they happened
  apiResult,     \* what the last Subscribe/Unsubscribe call returned
  crashed,       \* "no", or why the process terminated
  client,        \* c.client: "nil" until Connect creates the transport client
  status,        \* the transport's connection status
  autoReconnect, \* c.config.AutoReconnect
  brokerUp,      \* the broker can be reached
  brokerSubs,    \* the subscriptions the broker holds for the session
  attempts,      \* failed connection attempts of the Connect in progress
  polls,         \* iterations of the wait loop of the Subscribe in progress
  publishes,     \* publish requests handed to the transport
  disconnects,   \* disconnect requests handed to the transport
  reconnectedAt, \* 0, or nextMsg when the link was last re-established
  startPc,       \* Application.Start: the step it has reached
  lastHandled,   \* the last run of a message handler of the application
  garbageSeen,   \* the handlers that were given a payload that is not JSON
  sent,          \* the publishes of another client the broker has accepted
  payloads,      \* the payload bytes of the messages in delivered
  devices,       \* the rows of the devices table, by id
  now,           \* the clock read by time.Now()
  lastOp,        \* the last call of the repository or of the HTTP handlers
  repo           \* the RepositoryInterface implementation behind the handlers

vars == <<mPattern, mTopic, mResult, mCalls, connected, handlers, routes,
          apiCall, apiCalls, goroutines, nextMsg, delivered, executed, apiResult,
          crashed, client, status, autoReconnect, brokerUp, brokerSubs, attempts,
          polls, publishes, disconnects, reconnectedAt, startPc, lastHandled,
          garbageSeen, sent, payloads, devices, now, lastOp, repo>>

matchVars == <<mPattern, mTopic, mResult, mCalls>>
clientVars == <<connected, handlers, routes, apiCall, apiCalls, goroutines, nextMsg,
                delivered, executed, apiResult, crashed>>
envVars == <<autoReconnect, brokerUp>>
countVars == <<attempts, polls, publishes, disconnects, reconnectedAt>>
appVars == <<startPc, lastHandled, garbageSeen>>
lifeVars == <<client, status, brokerSubs, envVars, countVars, appVars>>
wireVars == <<sent, payloads>>
repoVars == <<devices, now, lastOp, repo>>
otherVars == <<wireVars, repoVars>>

----------------------------------------------------------------------------
(* Bounds *)

MaxPatternLen == 3
MaxTopicLen == 4
MaxCalls == 2
MaxMsgs == 2
MaxApiCalls == 3
MaxAttempts == 2
MaxStampLen == 3

----------------------------------------------------------------------------
(* Strings *)

Slash == "/"
Plus == <<"+">>
Hash == <<"#">>

Alphabet == {"d", "/", "+", "#"}

StringsUpTo(n) == UNION {[1..k -> Alphabet] : k \in 0..n}

\* strings.Split(s, "/"): the segments between separators; never empty,
\* Split("") is one empty segment.
RECURSIVE Split(_)
Split(s) ==
  IF \A i \in 1..Len(s) : s[i] # Slash
  THEN <<s>>
  ELSE LET i == CHOOSE k \in 1..Len(s) :
                  s[k] = Slash /\ \A j \in 1..(k-1) : s[j] # Slash
       IN <<SubSeq(s, 1, i-1)>> \o Split(SubSeq(s, i+1, Len(s)))

\* strings.HasSuffix(s, suffix)
HasSuffix(s, suffix) ==
  /\ Len(s) >= Len(suffix)
  /\ SubSeq(s, Len(s) - Len(suffix) + 1, Len(s)) = suffix

----------------------------------------------------------------------------
(* topicMatches.  Indices are Go's (from 0); reading parts[i] with i out   *)
(* of range is a run-time panic.                                           *)

InRange(parts, i) == i >= 0 /\ i < Len(parts)

\* the loop of the '#' branch
RECURSIVE HashLoop(_, _, _)
HashLoop(patternParts, topicParts, i) ==
  IF i >= Len(patternParts) THEN "true"
  ELSE IF i >= Len(topicParts) THEN "false"
  ELSE IF ~InRange(topicParts, i) THEN "panic"
  ELSE IF patternParts[i+1] # Plus /\ patternParts[i+1] # topicParts[i+1]
       THEN "false"
       ELSE HashLoop(patternParts, topicParts, i+1)

\* the '#' branch: the pattern's last segment is '#'
HashBranch_Strict(patternParts, topicParts) ==
  LET prefix == SubSeq(patternParts, 1, Len(patternParts) - 1)
  IN IF Len(topicParts) > Len(prefix)
     THEN HashLoop(prefix, topicParts, 0)
     ELSE "false"

HashBranch(patternParts, topicParts) ==
  LET prefix == SubSeq(patternParts, 1, Len(patternParts) - 1)
  IN IF Len(topicParts) >= Len(prefix)
     THEN HashLoop(prefix, topicParts, 0)
     ELSE "false"

\* the loop of the '+' / exact branch
RECURSIVE PlusLoop(_, _, _)
PlusLoop(patternParts, topicParts, i) ==
  IF i >= Len(patternParts) THEN "true"
  ELSE IF ~InRange(topicParts, i) THEN "panic"
  ELSE IF patternParts[i+1] # Plus /\ patternParts[i+1] # topicParts[i+1]
       THEN "false"
       ELSE PlusLoop(patternParts, topicParts, i+1)

\* the '+' / exact branch
PlusBranch_Prefix(patternParts, topicParts) ==
  IF Len(patternParts) > Len(topicParts)
  THEN "false"
  ELSE PlusLoop(patternParts, topicParts, 0)

PlusBranch_NoLengthCheck(patternParts, topicParts) ==
  PlusLoop(patternParts, topicParts, 0)

PlusBranch(patternParts, topicParts) ==
  IF Len(patternParts) # Len(topicParts)
  THEN "false"
  ELSE PlusLoop(patternParts, topicParts, 0)

\* "true", "false", or "panic" when the call does not return
topicMatchesOutcome(pattern, topic) ==
  LET patternParts == Split(pattern)
      topicParts == Split(topic)
  IN IF Len(patternParts) > 0 /\ patternParts[Len(patternParts)] = Hash
     THEN HashBranch(patternParts, topicParts)
     ELSE PlusBranch(patternParts, topicParts)

topicMatches(pattern, topic) == topicMatchesOutcome(pattern, topic) = "true"

----------------------------------------------------------------------------
(* The client before any call: NewClient *)

EmptyMap == [p \in {} |-> "none"]

NoCall == [op |-> "none"]

NoRun == [handler |-> "none"]

NewClient ==
  /\ connected = FALSE
  /\ handlers = EmptyMap
  /\ routes = {}
  /\ apiCall = NoCall
  /\ apiCalls = 0
  /\ goroutines = {}
  /\ nextMsg = 1
  /\ delivered = <<>>
  /\ executed = <<>>
  /\ apiResult = "none"
  /\ crashed = "no"
  /\ client = "nil"
  /\ status = "disconnected"
  /\ brokerSubs = {}
  /\ attempts = 0
  /\ polls = 0
  /\ publishes = 0
  /\ disconnects = 0
  /\ reconnectedAt = 0

\* no Application: the client is used on its own
NoApplication ==
  /\ startPc = "idle"
  /\ lastHandled = NoRun
  /\ garbageSeen = {}

\* nothing published by another client, an empty devices table
NoTraffic ==
  /\ sent = <<>>
  /\ payloads = <<>>
  /\ devices = EmptyMap
  /\ now = 0
  /\ lastOp = [op |-> "none"]
  /\ repo = "Repository"

----------------------------------------------------------------------------
(* Specification of topicMatches on its own: every pair of bounded strings *)

InitMatch ==
  /\ mPattern \in StringsUpTo(MaxPatternLen)
  /\ mTopic \in StringsUpTo(MaxTopicLen)
  /\ mResult = "none"
  /\ mCalls = 0
  /\ autoReconnect = TRUE
  /\ brokerUp = TRUE
  /\ NewClient
  /\ NoTraffic
  /\ NoApplication

MatchCall ==
  /\ mCalls < MaxCalls
  /\ mResult' = topicMatchesOutcome(mPattern, mTopic)
  /\ mCalls' = mCalls + 1
  /\ UNCHANGED <<mPattern, mTopic>>
  /\ UNCHANGED clientVars
  /\ UNCHANGED lifeVars
  /\ UNCHANGED otherVars

NextMatch == MatchCall

SpecMatch == InitMatch /\ [][NextMatch]_vars

----------------------------------------------------------------------------
(* Topics, patterns and handlers of the client model *)

DataPattern == <<"devices", "/", "+", "/", "data">>
StatusPattern == <<"devices", "/", "+", "/", "status">>
AllPattern == <<"devices", "/", "#">>

DataTopic == <<"devices", "/", "test-device", "/", "data">>
StatusTopic == <<"devices", "/", "test-device", "/", "status">>
ConfigTopic == <<"devices", "/", "test-device", "/", "config">>
OtherTopic == <<"test", "/", "topic">>

Topics == {DataTopic, ConfigTopic}
ServerTopics == {DataTopic, StatusTopic, ConfigTopic, OtherTopic}

DefaultHandler == "defaultMessageHandler"

\* what callers subscribe: two of the server's wildcard subscriptions and a
\* caller's own handler on a literal topic
Subscriptions ==
  { <<DataPattern, "handleDeviceData">>,
    <<AllPattern, "handleAllDeviceMessages">>,
    <<DataTopic, "custom">> }

\* what running a handler on a topic does to the message
HandlerEffect(handler, topic) ==
  CASE handler = "handleDeviceData" -> "telemetry"
    [] handler = "handleDeviceStatus" -> "status"
    [] handler = "handleAllDeviceMessages" ->
         IF ~HasSuffix(topic, <<"/", "data">>) /\ ~HasSuffix(topic, <<"/", "status">>)
         THEN "logged" ELSE "ignored"
    [] handler = DefaultHandler -> "logged"
    [] OTHER -> "custom"

\* a caller's handler is arbitrary code and may panic; the server's do not
MayPanic(handler) == handler = "custom"

----------------------------------------------------------------------------
(* The transport: routes and delivery *)

\* the transport's route matching (MQTT topic filter rules)
RECURSIVE RouteMatch(_, _)
RouteMatch(route, topic) ==
  IF Len(route) = 0 THEN Len(topic) = 0
  ELSE IF Len(topic) = 0 THEN route[1] = Hash
  ELSE IF route[1] = Hash THEN TRUE
  ELSE IF route[1] = Plus \/ route[1] = topic[1]
       THEN RouteMatch(Tail(route), Tail(topic))
       ELSE FALSE

routeIncludesTopic(route, topic) == RouteMatch(Split(route), Split(topic))

MatchingRoutes(topic) == {r \in routes : routeIncludesTopic(r, topic)}

\* SetOrderMatters(false): every matching route's callback is started on a
\* goroutine of its own; without a matching route the default publish
\* handler is
SpawnedFor(msg, topic) ==
  IF MatchingRoutes(topic) = {}
  THEN {[msg |-> msg, kind |-> "default", route |-> <<>>, phase |-> "new"]}
  ELSE {[msg |-> msg, kind |-> "callback", route |-> r, phase |-> "new"] :
          r \in MatchingRoutes(topic)}

\* a message of the topic arrives; the transport starts the callbacks
Receive(topic) ==
  /\ crashed = "no"
  /\ connected
  /\ status = "connected"
  /\ nextMsg <= MaxMsgs
  /\ goroutines' = goroutines \cup SpawnedFor(nextMsg, topic)
  /\ delivered' = Append(delivered, topic)
  /\ nextMsg' = nextMsg + 1
  /\ UNCHANGED <<connected, handlers, routes, apiCall, apiCalls, executed, apiResult, crashed>>
  /\ UNCHANGED <<matchVars, repoVars>>
  /\ UNCHANGED lifeVars

\* a message whose payload and publisher are left open
Deliver(topic) ==
  /\ Receive(topic)
  /\ UNCHANGED wireVars

----------------------------------------------------------------------------
(* The dispatch callback installed by Subscribe *)

\* first try exact match
ExactHit_Never(registry, topic) == FALSE

ExactHit(registry, topic) == topic \in DOMAIN registry

\* then try wildcard matches; the order of a range over a map is not fixed,
\* so any matching entry may be the first one met
WildcardHits_All(registry, topic) == DOMAIN registry

WildcardHits(registry, topic) ==
  {p \in DOMAIN registry : topicMatches(p, topic)}

\* if no handler found, use default handler
ScanOutcomes_AnyRegistered(registry, topic) ==
  IF DOMAIN registry = {}
  THEN {DefaultHandler}
  ELSE {registry[p] : p \in DOMAIN registry}

ScanOutcomes(registry, topic) ==
  IF WildcardHits(registry, topic) = {}
  THEN {DefaultHandler}
  ELSE {registry[p] : p \in WildcardHits(registry, topic)}

\* a write of c.handlers is in progress on the caller's goroutine
MapWriteInProgress == apiCall.op \in {"Subscribe", "Unsubscribe"}

\* the handler runs on the dispatching goroutine; nothing recovers a panic
Invoke(g, handler, panics) ==
  /\ executed' = Append(executed, [msg |-> g.msg, handler |-> handler])
  /\ goroutines' = goroutines \ {g}
  /\ crashed' = IF panics THEN "handler panic" ELSE "no"

\* a map read that overlaps a map write is a data race: the runtime may
\* stop the process with a fatal error, or the read goes through
RacyReadCrash ==
  /\ MapWriteInProgress
  /\ crashed' = "concurrent map read and map write"
  /\ UNCHANGED <<goroutines, executed>>

CallbackLookup(g) ==
  /\ crashed = "no"
  /\ g \in goroutines /\ g.kind = "callback" /\ g.phase = "new"
  /\ \/ RacyReadCrash
     \/ /\ ExactHit(handlers, delivered[g.msg])
        /\ \E panics \in {FALSE, MayPanic(handlers[delivered[g.msg]])} :
             Invoke(g, handlers[delivered[g.msg]], panics)
     \/ /\ ~ExactHit(handlers, delivered[g.msg])
        /\ goroutines' = (goroutines \ {g}) \cup {[g EXCEPT !.phase = "scan"]}
        /\ UNCHANGED <<executed, crashed>>
  /\ UNCHANGED <<connected, handlers, routes, apiCall, apiCalls, nextMsg, delivered,
                 apiResult>>
  /\ UNCHANGED <<matchVars, otherVars>>
  /\ UNCHANGED lifeVars

CallbackScan(g) ==
  /\ crashed = "no"
  /\ g \in goroutines /\ g.kind = "callback" /\ g.phase = "scan"
  /\ \/ RacyReadCrash
     \/ \E handler \in ScanOutcomes(handlers, delivered[g.msg]) :
          \E panics \in {FALSE, MayPanic(handler)} :
            Invoke(g, handler, panics)
  /\ UNCHANGED <<connected, handlers, routes, apiCall, apiCalls, nextMsg, delivered,
                 apiResult>>
  /\ UNCHANGED <<matchVars, otherVars>>
  /\ UNCHANGED lifeVars

\* the default publish handler, for a message no route matches
DefaultRun(g) ==
  /\ crashed = "no"
  /\ g \in goroutines /\ g.kind = "default"
  /\ Invoke(g, DefaultHandler, FALSE)
  /\ UNCHANGED <<connected, handlers, routes, apiCall, apiCalls, nextMsg, delivered,
                 apiResult>>
  /\ UNCHANGED <<matchVars, otherVars>>
  /\ UNCHANGED lifeVars

----------------------------------------------------------------------------
(* Connect, Disconnect, Subscribe, Unsubscribe: called one at a time on    *)
(* the caller's goroutine.  The Client has no lock: the write of           *)
(* c.handlers by Subscribe and Unsubscribe takes time, and dispatch        *)
(* callbacks run meanwhile on the transport's goroutines.                  *)

Patterns == {sub[1] : sub \in Subscriptions}

\* c.handlers[topic] = handler
Store_KeepFirst(registry, topic, handler) ==
  [p \in DOMAIN registry \cup {topic} |->
     IF p \in DOMAIN registry THEN registry[p] ELSE handler]

Store(registry, topic, handler) ==
  [p \in DOMAIN registry \cup {topic} |->
     IF p = topic THEN handler ELSE registry[p]]

\* delete(c.handlers, topic)
Delete(registry, topic) ==
  [p \in DOMAIN registry \ {topic} |-> registry[p]]

\* a new transport client is created on every Connect; it has no routes
Connect ==
  /\ crashed = "no"
  /\ apiCall = NoCall
  /\ apiCalls < MaxApiCalls
  /\ apiCalls' = apiCalls + 1
  /\ ~connected
  /\ connected' = TRUE
  /\ routes' = {}
  /\ UNCHANGED <<handlers, apiCall, goroutines, nextMsg, delivered, executed, apiResult, crashed>>
  /\ UNCHANGED <<matchVars, otherVars>>
  /\ client' = "created"
  /\ status' = "connected"
  /\ UNCHANGED <<brokerSubs, envVars, countVars, appVars>>

Disconnect ==
  /\ crashed = "no"
  /\ apiCall = NoCall
  /\ apiCalls < MaxApiCalls
  /\ apiCalls' = apiCalls + 1
  /\ connected
  /\ connected' = FALSE
  /\ UNCHANGED <<handlers, routes, apiCall, goroutines, nextMsg, delivered,
                 executed, apiResult, crashed>>
  /\ UNCHANGED <<matchVars, otherVars>>
  /\ status' = "disconnected"
  /\ UNCHANGED <<client, brokerSubs, envVars, countVars, appVars>>

\* Subscribe up to the start of the store of the handler
SubscribeBegin(topic, handler) ==
  /\ crashed = "no"
  /\ apiCall = NoCall
  /\ apiCalls < MaxApiCalls
  /\ apiCalls' = apiCalls + 1
  /\ IF connected
     THEN /\ apiCall' = [op |-> "Subscribe", topic |-> topic, handler |-> handler]
          /\ apiResult' = "none"
     ELSE /\ apiResult' = "not connected"
          /\ UNCHANGED apiCall
  /\ UNCHANGED <<connected, handlers, routes, goroutines, nextMsg, delivered,
                 executed, crashed>>
  /\ UNCHANGED <<matchVars, otherVars>>
  /\ UNCHANGED lifeVars

\* the store completes, then the transport is asked to subscribe: it adds
\* the route with the dispatch callback and waits for the broker
SubscribeEnd ==
  /\ crashed = "no"
  /\ UNCHANGED apiCalls
  /\ apiCall.op = "Subscribe"
  /\ handlers' = Store(handlers, apiCall.topic, apiCall.handler)
  /\ IF connected
     THEN /\ routes' = routes \cup {apiCall.topic}
          /\ apiResult' \in {"ok", "failed to subscribe"}
     ELSE /\ apiResult' = "failed to subscribe"
          /\ UNCHANGED routes
  /\ apiCall' = NoCall
  /\ UNCHANGED <<connected, goroutines, nextMsg, delivered, executed, crashed>>
  /\ UNCHANGED <<matchVars, otherVars>>
  /\ UNCHANGED lifeVars

\* Unsubscribe up to the start of the delete of the handler
UnsubscribeBegin(topic) ==
  /\ crashed = "no"
  /\ apiCall = NoCall
  /\ apiCalls < MaxApiCalls
  /\ apiCalls' = apiCalls + 1
  /\ IF ~connected
     THEN /\ apiResult' = "not connected"
          /\ UNCHANGED <<apiCall, routes>>
     ELSE /\ routes' = routes \ {topic}
          /\ \/ /\ apiResult' = "failed to unsubscribe"
                /\ UNCHANGED apiCall
             \/ /\ apiResult' = "none"
                /\ apiCall' = [op |-> "Unsubscribe", topic |-> topic]
  /\ UNCHANGED <<connected, handlers, goroutines, nextMsg, delivered,
                 executed, crashed>>
  /\ UNCHANGED <<matchVars, otherVars>>
  /\ UNCHANGED lifeVars

UnsubscribeEnd ==
  /\ crashed = "no"
  /\ UNCHANGED apiCalls
  /\ apiCall.op = "Unsubscribe"
  /\ handlers' = Delete(handlers, apiCall.topic)
  /\ apiResult' = "ok"
  /\ apiCall' = NoCall
  /\ UNCHANGED <<connected, routes, goroutines, nextMsg, delivered, executed, crashed>>
  /\ UNCHANGED <<matchVars, otherVars>>
  /\ UNCHANGED lifeVars

----------------------------------------------------------------------------
(* Specification of the client *)

Init ==
  /\ mPattern = <<>>
  /\ mTopic = <<>>
  /\ mResult = "none"
  /\ mCalls = 0
  /\ autoReconnect = TRUE
  /\ brokerUp = TRUE
  /\ NewClient
  /\ NoTraffic
  /\ NoApplication

Next ==
  \/ Connect
  \/ Disconnect
  \/ \E sub \in Subscriptions : SubscribeBegin(sub[1], sub[2])
  \/ SubscribeEnd
  \/ \E topic \in Patterns : UnsubscribeBegin(topic)
  \/ UnsubscribeEnd
  \/ \E topic \in Topics : Deliver(topic)
  \/ \E g \in goroutines : CallbackLookup(g)
  \/ \E g \in goroutines : CallbackScan(g)
  \/ \E g \in goroutines : DefaultRun(g)

Spec == Init /\ [][Next]_vars

----------------------------------------------------------------------------
(* Specification of the server: Application.Start connects and subscribes  *)
(* the three patterns, then messages arrive; Application.Stop disconnects  *)

\* Start when the broker is reached and subscribeToMQTTTopics returns nil
AppStart ==
  /\ crashed = "no"
  /\ apiCall = NoCall
  /\ apiCalls = 0
  /\ ~connected
  /\ connected' = TRUE
  /\ handlers' = Store(Store(Store(handlers,
                    DataPattern, "handleDeviceData"),
                    StatusPattern, "handleDeviceStatus"),
                    AllPattern, "handleAllDeviceMessages")
  /\ routes' = {DataPattern, StatusPattern, AllPattern}
  /\ apiCalls' = apiCalls + 1
  /\ apiResult' = "ok"
  /\ UNCHANGED <<apiCall, goroutines, nextMsg, delivered, executed, crashed>>
  /\ UNCHANGED <<matchVars, otherVars>>
  /\ client' = "created"
  /\ status' = "connected"
  /\ UNCHANGED <<brokerSubs, envVars, countVars, appVars>>

AppStop ==
  /\ crashed = "no"
  /\ connected
  /\ connected' = FALSE
  /\ UNCHANGED <<handlers, routes, apiCall, apiCalls, goroutines, nextMsg,
                 delivered, executed, apiResult, crashed>>
  /\ UNCHANGED <<matchVars, otherVars>>
  /\ status' = "disconnected"
  /\ UNCHANGED <<client, brokerSubs, envVars, countVars, appVars>>

NextServer ==
  \/ AppStart
  \/ AppStop
  \/ \E topic \in ServerTopics : Deliver(topic)
  \/ \E g \in goroutines : CallbackLookup(g)
  \/ \E g \in goroutines : CallbackScan(g)
  \/ \E g \in goroutines : DefaultRun(g)

SpecServer == Init /\ [][NextServer]_vars

----------------------------------------------------------------------------
(* The connection life cycle: Connect with its retries, the loss of the    *)
(* link and the automatic reconnection, and the calls made in each status  *)

\* opts.SetConnectRetry(true)
ConnectRetry == TRUE

\* opts.SetCleanSession(false)
CleanSession == FALSE

connectionWaitAttempts == 10

dispatchVars == <<goroutines, nextMsg, delivered, executed, crashed>>

\* c.client.IsConnected() of the transport: the link is up now, or the
\* transport will establish or re-establish it by itself
TransportIsConnected(st) ==
  \/ st = "connected"
  \/ autoReconnect /\ st = "reconnecting"
  \/ ConnectRetry /\ st = "connecting"

IsConnected == client # "nil" /\ connected

\* the transport's status changes, and with it what IsConnected() answers
SetStatus(st) ==
  /\ status' = st
  /\ connected' = TransportIsConnected(st)

\* the broker keeps the subscriptions of a session that is not clean
SessionKept_Clean(subs) == {}

SessionKept(subs) == IF CleanSession THEN {} ELSE subs

\* Connect up to c.client.Connect(): a new transport client, then the
\* first attempt is under way and Connect waits for the token
ConnectBegin ==
  /\ crashed = "no"
  /\ apiCall = NoCall
  /\ apiCalls < MaxApiCalls
  /\ apiCalls' = apiCalls + 1
  /\ status = "disconnected"
  /\ client' = "created"
  /\ routes' = {}
  /\ SetStatus("connecting")
  /\ apiCall' = [op |-> "Connect", phase |-> "attempt"]
  /\ attempts' = 0
  /\ apiResult' = "none"
  /\ UNCHANGED <<handlers, brokerSubs, polls, publishes, disconnects, reconnectedAt>>
  /\ UNCHANGED <<dispatchVars, envVars, matchVars, otherVars>>

ConnectCall ==
  /\ ConnectBegin
  /\ UNCHANGED appVars

\* one connection attempt of the transport; the token completes when the
\* attempt succeeds, and when it fails without ConnectRetry
ConnectAttempt ==
  /\ crashed = "no"
  /\ apiCall = [op |-> "Connect", phase |-> "attempt"]
  /\ IF brokerUp
     THEN /\ SetStatus("connected")
          /\ brokerSubs' = SessionKept(brokerSubs)
          /\ apiCall' = NoCall
          /\ apiResult' = "ok"
          /\ UNCHANGED attempts
     ELSE /\ attempts' = IF attempts < MaxAttempts THEN attempts + 1 ELSE attempts
          /\ UNCHANGED brokerSubs
          /\ IF ConnectRetry
             THEN /\ apiCall' = [op |-> "Connect", phase |-> "sleep"]
                  /\ UNCHANGED <<status, connected, apiResult>>
             ELSE /\ SetStatus("disconnected")
                  /\ apiCall' = NoCall
                  /\ apiResult' = "failed to connect to MQTT broker"
  /\ UNCHANGED <<client, handlers, routes, apiCalls, polls, publishes, disconnects,
                 reconnectedAt>>
  /\ UNCHANGED <<dispatchVars, envVars, appVars, matchVars, otherVars>>

\* time.Sleep(ConnectRetryInterval), then the next attempt
ConnectRetrySleep ==
  /\ crashed = "no"
  /\ apiCall = [op |-> "Connect", phase |-> "sleep"]
  /\ apiCall' = [op |-> "Connect", phase |-> "attempt"]
  /\ UNCHANGED <<connected, handlers, routes, apiCalls, apiResult>>
  /\ UNCHANGED <<dispatchVars, lifeVars, matchVars, otherVars>>

\* if c.client != nil && c.client.IsConnected()
ShouldDisconnect_Always == TRUE

ShouldDisconnect == client # "nil" /\ connected

DisconnectCall ==
  /\ crashed = "no"
  /\ apiCall = NoCall
  /\ apiCalls < MaxApiCalls
  /\ apiCalls' = apiCalls + 1
  /\ IF ShouldDisconnect
     THEN /\ SetStatus("disconnected")
          /\ disconnects' = disconnects + 1
          /\ apiResult' = "disconnected"
     ELSE /\ apiResult' = "nothing to disconnect"
          /\ UNCHANGED <<status, connected, disconnects>>
  /\ UNCHANGED <<client, handlers, routes, apiCall, brokerSubs, attempts, polls,
                 publishes, reconnectedAt>>
  /\ UNCHANGED <<dispatchVars, envVars, appVars, matchVars, otherVars>>

\* Subscribe, Unsubscribe and Publish call c.client.IsConnected() without
\* looking at c.client first: on a Client that never ran Connect the field
\* is a nil interface, and the method call on it panics
NilClientCall(op) ==
  /\ crashed = "no"
  /\ apiCall = NoCall
  /\ client = "nil"
  /\ apiCalls < MaxApiCalls
  /\ apiCalls' = apiCalls + 1
  /\ crashed' = "nil pointer dereference"
  /\ UNCHANGED <<connected, handlers, routes, apiCall, apiResult, goroutines, nextMsg,
                 delivered, executed>>
  /\ UNCHANGED <<lifeVars, matchVars, otherVars>>

\* if !c.client.IsConnected() { return fmt.Errorf(...) }
MayPublish_Always == TRUE

MayPublish == connected

\* Publish: one c.client.Publish, whose token ends with or without error
PublishCall ==
  /\ crashed = "no"
  /\ apiCall = NoCall
  /\ client # "nil"
  /\ apiCalls < MaxApiCalls
  /\ apiCalls' = apiCalls + 1
  /\ IF MayPublish
     THEN /\ publishes' = publishes + 1
          /\ apiResult' \in {"ok", "failed to publish"}
     ELSE /\ apiResult' = "publish: not connected"
          /\ UNCHANGED publishes
  /\ UNCHANGED <<connected, handlers, routes, apiCall, client, status, brokerSubs,
                 attempts, polls, disconnects, reconnectedAt>>
  /\ UNCHANGED <<dispatchVars, envVars, appVars, matchVars, otherVars>>

\* Subscribe is entered: i := 0
SubscribeCall(topic, handler) ==
  /\ crashed = "no"
  /\ apiCall = NoCall
  /\ client # "nil"
  /\ apiCalls < MaxApiCalls
  /\ apiCalls' = apiCalls + 1
  /\ apiCall' = [op |-> "SubscribeWait", topic |-> topic, handler |-> handler]
  /\ polls' = 0
  /\ apiResult' = "none"
  /\ UNCHANGED <<connected, handlers, routes, client, status, brokerSubs, attempts,
                 publishes, disconnects, reconnectedAt>>
  /\ UNCHANGED <<dispatchVars, envVars, appVars, matchVars, otherVars>>

\* one iteration of the wait loop that finds the client not connected:
\* time.Sleep(connectionWaitTime); i++
SubscribePoll ==
  /\ crashed = "no"
  /\ apiCall.op = "SubscribeWait"
  /\ polls < connectionWaitAttempts
  /\ ~connected
  /\ polls' = polls + 1
  /\ UNCHANGED <<connected, handlers, routes, apiCall, apiCalls, apiResult, client,
                 status, brokerSubs, attempts, publishes, disconnects, reconnectedAt>>
  /\ UNCHANGED <<dispatchVars, envVars, appVars, matchVars, otherVars>>

\* the subscribe request of a route the transport holds reaches the broker
\* when the link is up
Subscribed(subs, topic, result) ==
  IF result = "ok" /\ status = "connected" THEN subs \cup {topic} ELSE subs

\* if !c.client.IsConnected() { return fmt.Errorf(...) }
ConnectedAfterWait_Assumed == TRUE

ConnectedAfterWait == connected

\* the loop is left; the client is checked once more, then the handler is
\* stored and the transport is asked to subscribe
SubscribeFinish ==
  /\ crashed = "no"
  /\ apiCall.op = "SubscribeWait"
  /\ connected \/ polls = connectionWaitAttempts
  /\ apiCall' = NoCall
  /\ IF ~ConnectedAfterWait
     THEN /\ apiResult' = "not connected after waiting"
          /\ UNCHANGED <<handlers, routes, brokerSubs>>
     ELSE /\ handlers' = Store(handlers, apiCall.topic, apiCall.handler)
          /\ routes' = routes \cup {apiCall.topic}
          /\ apiResult' \in IF status = "connected"
                            THEN {"ok", "failed to subscribe"}
                            ELSE {"failed to subscribe"}
          /\ brokerSubs' = Subscribed(brokerSubs, apiCall.topic, apiResult')
  /\ UNCHANGED <<connected, apiCalls, client, status, attempts, polls, publishes,
                 disconnects, reconnectedAt>>
  /\ UNCHANGED <<dispatchVars, envVars, appVars, matchVars, otherVars>>

TokenFailed_Never(result) == FALSE

\* token.Wait() && token.Error() != nil
TokenFailed(result) == result # "ok"

\* Unsubscribe: the transport drops the route and asks the broker; the
\* handler is deleted when the token ends without error
UnsubscribeCall(topic) ==
  /\ crashed = "no"
  /\ apiCall = NoCall
  /\ client # "nil"
  /\ apiCalls < MaxApiCalls
  /\ apiCalls' = apiCalls + 1
  /\ IF ~connected
     THEN /\ apiResult' = "not connected"
          /\ UNCHANGED <<handlers, routes, brokerSubs>>
     ELSE /\ routes' = routes \ {topic}
          /\ apiResult' \in IF status = "connected"
                            THEN {"ok", "failed to unsubscribe"}
                            ELSE {"failed to unsubscribe"}
          /\ handlers' = IF TokenFailed(apiResult') THEN handlers
                         ELSE Delete(handlers, topic)
          /\ brokerSubs' = IF apiResult' = "ok" THEN brokerSubs \ {topic} ELSE brokerSubs
  /\ UNCHANGED <<connected, apiCall, client, status, attempts, polls, publishes,
                 disconnects, reconnectedAt>>
  /\ UNCHANGED <<dispatchVars, envVars, appVars, matchVars, otherVars>>

\* the broker becomes unreachable; an open link is lost, and the transport
\* starts to reconnect when opts.SetAutoReconnect is set
BrokerFails ==
  /\ brokerUp
  /\ brokerUp' = FALSE
  /\ IF status = "connected"
     THEN SetStatus(IF autoReconnect THEN "reconnecting" ELSE "disconnected")
     ELSE UNCHANGED <<status, connected>>
  /\ UNCHANGED <<handlers, routes, apiCall, apiCalls, apiResult, client, brokerSubs,
                 autoReconnect, countVars>>
  /\ UNCHANGED <<dispatchVars, appVars, matchVars, otherVars>>

BrokerReturns ==
  /\ ~brokerUp
  /\ brokerUp' = TRUE
  /\ UNCHANGED <<connected, handlers, routes, apiCall, apiCalls, apiResult, client,
                 status, brokerSubs, autoReconnect, countVars>>
  /\ UNCHANGED <<dispatchVars, appVars, matchVars, otherVars>>

\* the transport re-establishes the link: same client, same routes; the
\* session is resumed
Reconnect ==
  /\ crashed = "no"
  /\ status = "reconnecting"
  /\ brokerUp
  /\ SetStatus("connected")
  /\ brokerSubs' = SessionKept(brokerSubs)
  /\ reconnectedAt' = nextMsg
  /\ UNCHANGED <<handlers, routes, apiCall, apiCalls, apiResult, client, attempts,
                 polls, publishes, disconnects>>
  /\ UNCHANGED <<dispatchVars, envVars, appVars, matchVars, otherVars>>

\* the broker sends the client a message of a topic the session subscribes
BrokerDeliver(topic) ==
  /\ \E p \in brokerSubs : routeIncludesTopic(p, topic)
  /\ Deliver(topic)

LifeTopics == {DataTopic}

LifeSubscriptions == {<<DataPattern, "handleDeviceData">>,
                      <<DataPattern, "handleAllDeviceMessages">>}

InitLife ==
  /\ mPattern = <<>>
  /\ mTopic = <<>>
  /\ mResult = "none"
  /\ mCalls = 0
  /\ autoReconnect \in BOOLEAN
  /\ brokerUp \in BOOLEAN
  /\ NewClient
  /\ NoTraffic
  /\ NoApplication

NextLife ==
  \/ ConnectCall
  \/ ConnectAttempt
  \/ ConnectRetrySleep
  \/ DisconnectCall
  \/ PublishCall
  \/ \E sub \in LifeSubscriptions : SubscribeCall(sub[1], sub[2])
  \/ SubscribePoll
  \/ SubscribeFinish
  \/ \E sub \in LifeSubscriptions : UnsubscribeCall(sub[1])
  \/ \E op \in {"Subscribe", "Unsubscribe", "Publish"} : NilClientCall(op)
  \/ BrokerFails
  \/ BrokerReturns
  \/ Reconnect
  \/ \E topic \in LifeTopics : BrokerDeliver(topic)
  \/ \E g \in goroutines : CallbackLookup(g)
  \/ \E g \in goroutines : CallbackScan(g)
  \/ \E g \in goroutines : DefaultRun(g)

SpecLife == InitLife /\ [][NextLife]_vars

----------------------------------------------------------------------------
(* Application.Start step by step, with a broker that may be unreachable   *)

\* if err := app.mqttClient.Connect(); err != nil
StartConnect ==
  /\ startPc = "start"
  /\ ConnectBegin
  /\ startPc' = "connect"
  /\ UNCHANGED <<lastHandled, garbageSeen>>

\* Connect has returned: its error is logged, or, after the wait, the three
\* patterns are subscribed when the client is connected
StartSubscribe ==
  /\ crashed = "no"
  /\ startPc = "connect"
  /\ apiCall = NoCall
  /\ IF apiResult = "ok" /\ IsConnected
     THEN /\ handlers' = Store(Store(Store(handlers,
                            DataPattern, "handleDeviceData"),
                            StatusPattern, "handleDeviceStatus"),
                            AllPattern, "handleAllDeviceMessages")
          /\ routes' = routes \cup {DataPattern, StatusPattern, AllPattern}
          /\ brokerSubs' = IF status = "connected"
                           THEN brokerSubs \cup {DataPattern, StatusPattern, AllPattern}
                           ELSE brokerSubs
     ELSE UNCHANGED <<handlers, routes, brokerSubs>>
  /\ startPc' = "listen"
  /\ UNCHANGED <<connected, apiCall, apiCalls, apiResult, client, status, countVars,
                 lastHandled, garbageSeen>>
  /\ UNCHANGED <<dispatchVars, envVars, matchVars, otherVars>>

\* app.server.ListenAndServe()
StartListen ==
  /\ crashed = "no"
  /\ startPc = "listen"
  /\ startPc' = "listening"
  /\ UNCHANGED <<connected, handlers, routes, apiCall, apiCalls, apiResult, client,
                 status, brokerSubs, countVars, lastHandled, garbageSeen>>
  /\ UNCHANGED <<dispatchVars, envVars, matchVars, otherVars>>

StartTopics == {ConfigTopic}

InitStart ==
  /\ mPattern = <<>>
  /\ mTopic = <<>>
  /\ mResult = "none"
  /\ mCalls = 0
  /\ autoReconnect \in BOOLEAN
  /\ brokerUp \in BOOLEAN
  /\ NewClient
  /\ NoTraffic
  /\ startPc = "start"
  /\ lastHandled = NoRun
  /\ garbageSeen = {}

NextStart ==
  \/ StartConnect
  \/ ConnectAttempt
  \/ ConnectRetrySleep
  \/ StartSubscribe
  \/ StartListen
  \/ BrokerFails
  \/ BrokerReturns
  \/ Reconnect
  \/ \E topic \in StartTopics : BrokerDeliver(topic)
  \/ \E g \in goroutines : CallbackLookup(g)
  \/ \E g \in goroutines : CallbackScan(g)

\* Start runs on: each of its steps is taken when it stays possible; nothing
\* is assumed of the broker
SpecStart ==
  /\ InitStart
  /\ [][NextStart]_vars
  /\ WF_vars(StartConnect)
  /\ WF_vars(ConnectAttempt)
  /\ WF_vars(ConnectRetrySleep)
  /\ WF_vars(StartSubscribe)
  /\ WF_vars(StartListen)

----------------------------------------------------------------------------
(* The message handlers of the application, given payloads of every kind  *)

\* a timestamp string, by its parts: a full date, the letter T, a time of
\* day with its zone offset
StampAtoms == {"date", "T", "time"}

StampsUpTo(n) == UNION {[1..k -> StampAtoms] : k \in 0..n}

\* time.RFC3339: "2006-01-02T15:04:05Z07:00"
RFC3339 == <<"date", "T", "time">>

\* time.Parse(layout, value): the value is read part by part along the
\* layout; an error when a part differs or text is missing or left over
RECURSIVE ParseAlong(_, _)
ParseAlong(layout, value) ==
  IF layout = <<>>
  THEN value = <<>>
  ELSE /\ value # <<>>
       /\ Head(value) = Head(layout)
       /\ ParseAlong(Tail(layout), Tail(value))

TimeParse(layout, value) ==
  IF ParseAlong(layout, value) THEN "parsed" ELSE "error"

DeviceIDs == {"", "dev-1"}

Statuses == {"", "online"}

\* payloads: text that is not JSON, the JSON value null, a JSON object with
\* a number where the struct has a string, and JSON objects with the fields
\* as strings (an absent field and an empty one decode alike)
OtherKinds == {"garbage", "null", "mistyped"}

DataPayloads ==
  {[kind |-> k, device_id |-> "", timestamp |-> <<>>] : k \in OtherKinds}
  \cup [kind : {"object"}, device_id : DeviceIDs, timestamp : StampsUpTo(MaxStampLen)]

StatusPayloads ==
  {[kind |-> k, device_id |-> "", status |-> "", last_seen |-> <<>>] : k \in OtherKinds}
  \cup [kind : {"object"}, device_id : DeviceIDs, status : Statuses,
        last_seen : StampsUpTo(MaxStampLen)]

\* json.Unmarshal(payload, &deviceData): null leaves the zero value
UnmarshalData(payload) ==
  CASE payload.kind = "object" ->
         [err |-> FALSE, DeviceID |-> payload.device_id, Timestamp |-> payload.timestamp]
    [] payload.kind = "null" ->
         [err |-> FALSE, DeviceID |-> "", Timestamp |-> <<>>]
    [] OTHER ->
         [err |-> TRUE, DeviceID |-> "", Timestamp |-> <<>>]

\* json.Unmarshal(payload, &deviceStatus)
UnmarshalStatus(payload) ==
  CASE payload.kind = "object" ->
         [err |-> FALSE, DeviceID |-> payload.device_id, Status |-> payload.status,
          LastSeen |-> payload.last_seen]
    [] payload.kind = "null" ->
         [err |-> FALSE, DeviceID |-> "", Status |-> "", LastSeen |-> <<>>]
    [] OTHER ->
         [err |-> TRUE, DeviceID |-> "", Status |-> "", LastSeen |-> <<>>]

\* if deviceData.DeviceID == ""
DeviceIDMissing_Never(deviceData) == FALSE

DeviceIDMissing(deviceData) == deviceData.DeviceID = ""

\* what handleDeviceData logs last
DeviceDataOutcome(payload) ==
  LET deviceData == UnmarshalData(payload)
  IN CASE deviceData.err -> "failed to parse"
       [] DeviceIDMissing(deviceData) -> "missing device_id"
       [] deviceData.Timestamp = <<>> -> "missing timestamp"
       [] TimeParse(RFC3339, deviceData.Timestamp) = "error" -> "failed to parse timestamp"
       [] OTHER -> "ready for database storage"

\* lastSeen of handleDeviceStatus
LastSeenOf_Unchecked(deviceStatus) ==
  IF deviceStatus.LastSeen # <<>> THEN "last_seen" ELSE "time.Now()"

LastSeenOf(deviceStatus) ==
  IF deviceStatus.LastSeen # <<>>
  THEN IF TimeParse(RFC3339, deviceStatus.LastSeen) = "error"
       THEN "time.Now()"
       ELSE "last_seen"
  ELSE "time.Now()"

\* what handleDeviceStatus logs last
DeviceStatusOutcome(payload) ==
  LET deviceStatus == UnmarshalStatus(payload)
  IN CASE deviceStatus.err -> "failed to parse"
       [] deviceStatus.DeviceID = "" -> "missing device_id"
       [] deviceStatus.Status = "" -> "missing status"
       [] OTHER -> "ready for database update"

\* log.Printf("Failed to parse ..."); return
ParseErrorEffect_Fatal == "exit"

ParseErrorEffect == "return"

Handled(handler, payload, outcome, lastSeen) ==
  /\ crashed = "no"
  /\ lastHandled' = [handler |-> handler, payload |-> payload, outcome |-> outcome,
                     lastSeen |-> lastSeen]
  /\ garbageSeen' = IF payload.kind = "garbage"
                    THEN garbageSeen \cup {handler}
                    ELSE garbageSeen
  /\ crashed' = IF outcome = "failed to parse" /\ ParseErrorEffect = "exit"
                THEN "exit"
                ELSE crashed
  /\ UNCHANGED <<connected, handlers, routes, apiCall, apiCalls, goroutines, nextMsg,
                 delivered, executed, apiResult>>
  /\ UNCHANGED <<client, status, brokerSubs, envVars, countVars, startPc, matchVars, otherVars>>

handleDeviceData(payload) ==
  Handled("handleDeviceData", payload, DeviceDataOutcome(payload), "none")

handleDeviceStatus(payload) ==
  Handled("handleDeviceStatus", payload, DeviceStatusOutcome(payload),
          IF DeviceStatusOutcome(payload) = "ready for database update"
          THEN LastSeenOf(UnmarshalStatus(payload))
          ELSE "none")

NextHandlers ==
  \/ \E payload \in DataPayloads : handleDeviceData(payload)
  \/ \E payload \in StatusPayloads : handleDeviceStatus(payload)

SpecHandlers == Init /\ [][NextHandlers]_vars

----------------------------------------------------------------------------
(* The round trip: another client publishes, the broker forwards the       *)
(* message to this client, whose callbacks hand it to a handler            *)

\* the device data the publisher builds
Telemetry == [DeviceID : {"dev-1"}, Timestamp : {RFC3339}]

\* json.Marshal(deviceData): the text of a JSON object with the two keys
MarshalData_NoTags(deviceData) ==
  [kind |-> "object", device_id |-> "", timestamp |-> <<>>]

MarshalData(deviceData) ==
  [kind |-> "object", device_id |-> deviceData.DeviceID,
   timestamp |-> deviceData.Timestamp]

\* the values given to Publish(topic, payload interface{}): the JSON text
\* as a string or as bytes, text that is not JSON, a value of another type
PublishValues ==
  {[type |-> t, text |-> MarshalData(deviceData)] :
     t \in {"string", "bytes", "struct"}, deviceData \in Telemetry}
  \cup {[type |-> "string", text |-> [kind |-> "garbage", device_id |-> "",
                                      timestamp |-> <<>>]]}

\* c.client.Publish(topic, qos, false, payload): the transport sends the
\* bytes of a string or of a byte slice and refuses any other type
TransportPayload(value) ==
  IF value.type \in {"string", "bytes"}
  THEN [err |-> FALSE, bytes |-> value.text]
  ELSE [err |-> TRUE, bytes |-> <<>>]

\* Publish of the other client returns nil; the broker forwards the message
\* to this client, which has a route for its topic
RemotePublish(topic, value) ==
  /\ ~TransportPayload(value).err
  /\ MatchingRoutes(topic) # {}
  /\ Receive(topic)
  /\ sent' = Append(sent, [topic |-> topic, value |-> value])
  /\ payloads' = Append(payloads, TransportPayload(value).bytes)

\* handler(msg.Topic(), msg.Payload())
HandlerArgs(execution) ==
  [topic |-> delivered[execution.msg], payload |-> payloads[execution.msg]]

RoundTripTopics == {DataTopic}

NextRoundTrip ==
  \/ AppStart
  \/ \E topic \in RoundTripTopics, value \in PublishValues : RemotePublish(topic, value)
  \/ \E g \in goroutines : CallbackLookup(g)
  \/ \E g \in goroutines : CallbackScan(g)

SpecRoundTrip == Init /\ [][NextRoundTrip]_vars

----------------------------------------------------------------------------
(* Device repository and the HTTP handlers in front of it *)

\* the number of times the clock is read
MaxClock == 3

ErrDeviceNotFound == "device not found"

\* the id MockRepository.Create gives to every device
MockDeviceID == 0

\* c.Param("id") of a request whose route has no id
EmptyID == -1

\* uuid.New(): a value that was never issued before; the clock reading of the
\* Create that asks for it is one
NewUUID(t) == t

\* the ids a request can name: no id, the id of the mock, every id Create can
\* issue, whether a device holds it or not
RequestIDs == EmptyID .. MaxClock

CreateRequests == {[Name |-> "a", Type |-> "a", Location |-> "a", Metadata |-> ""]}

NoRequest == [Name |-> "", Type |-> "", Location |-> "", Status |-> "", Metadata |-> ""]

\* no field, one field, every field
UpdateRequests ==
  {NoRequest,
   [NoRequest EXCEPT !.Name = "b"], [NoRequest EXCEPT !.Type = "b"],
   [NoRequest EXCEPT !.Location = "b"], [NoRequest EXCEPT !.Status = "online"],
   [NoRequest EXCEPT !.Metadata = "b"],
   [Name |-> "b", Type |-> "b", Location |-> "b", Status |-> "online", Metadata |-> "b"]}

StatusValues == {"online", "offline"}

NoDevice == [ID |-> EmptyID]
NewDevice(id, req, t) ==
  [ID |-> id, Name |-> req.Name, Type |-> req.Type, Location |-> req.Location,
   Status |-> "offline", LastSeen |-> t, CreatedAt |-> t, UpdatedAt |-> t,
   Metadata |-> req.Metadata]

\* INSERT INTO devices, m.devices[device.ID] = device
InsertRow(rows, device) ==
  [id \in DOMAIN rows \cup {device.ID} |-> IF id = device.ID THEN device ELSE rows[id]]

\* DELETE FROM devices WHERE id, delete(m.devices, id)
DeleteRow(rows, id) == [other \in DOMAIN rows \ {id} |-> rows[other]]

\* result.RowsAffected() of a statement with WHERE id = $n
RowsAffected(rows, id) == IF id \in DOMAIN rows THEN 1 ELSE 0

\* if req.X != "" { device.X = req.X }
Overwrite(old, new) == IF new # "" THEN new ELSE old

Repository_Create(rows, req, t, dbFails) ==
  LET device == NewDevice(NewUUID(t), req, t)
  IN IF dbFails
       THEN [err |-> "failed to create device", device |-> NoDevice, rows |-> rows]
       ELSE [err |-> "", device |-> device, rows |-> InsertRow(rows, device)]

Repository_GetByID(rows, id, dbFails) ==
  IF dbFails
    THEN [err |-> "failed to get device", device |-> NoDevice, rows |-> rows]
    ELSE IF id \notin DOMAIN rows
      THEN [err |-> ErrDeviceNotFound, device |-> NoDevice, rows |-> rows]
      ELSE [err |-> "", device |-> rows[id], rows |-> rows]

\* the SELECT of GetByID and the UPDATE are taken as one step; dbFails is a
\* failure of either statement
Repository_Update(rows, id, req, t, dbFails) ==
  LET found == Repository_GetByID(rows, id, FALSE)
      device == [found.device EXCEPT
                   !.Name = Overwrite(@, req.Name),
                   !.Type = Overwrite(@, req.Type),
                   !.Location = Overwrite(@, req.Location),
                   !.Status = Overwrite(@, req.Status),
                   !.Metadata = Overwrite(@, req.Metadata),
                   !.UpdatedAt = t]
  IN IF found.err # "" THEN found
     ELSE IF dbFails
       THEN [err |-> "failed to update device", device |-> NoDevice, rows |-> rows]
       ELSE [err |-> "", device |-> device, rows |-> InsertRow(rows, device)]

NoRowsAffected_Never(count) == FALSE

\* rowsAffected == 0
NoRowsAffected(count) == count = 0

Repository_Delete(rows, id, dbFails) ==
  IF dbFails
    THEN [err |-> "failed to delete device", device |-> NoDevice, rows |-> rows]
    ELSE IF NoRowsAffected(RowsAffected(rows, id))
      THEN [err |-> ErrDeviceNotFound, device |-> NoDevice, rows |-> DeleteRow(rows, id)]
      ELSE [err |-> "", device |-> NoDevice, rows |-> DeleteRow(rows, id)]

\* the UPDATE changes the row of id if there is one; the number of rows it
\* changed is not read
Repository_UpdateStatus(rows, id, newStatus, t, dbFails) ==
  IF dbFails
    THEN [err |-> "failed to update device newStatus", device |-> NoDevice, rows |-> rows]
    ELSE [err |-> "", device |-> NoDevice,
          rows |-> IF id \in DOMAIN rows
                     THEN [rows EXCEPT ![id].Status = newStatus,
                                       ![id].LastSeen = t,
                                       ![id].UpdatedAt = t]
                     ELSE rows]

MockRepository_Create(rows, req, t) ==
  LET device == NewDevice(MockDeviceID, req, t)
  IN [err |-> "", device |-> device, rows |-> InsertRow(rows, device)]

MockRepository_GetByID(rows, id) ==
  IF id \notin DOMAIN rows
    THEN [err |-> ErrDeviceNotFound, device |-> NoDevice, rows |-> rows]
    ELSE [err |-> "", device |-> rows[id], rows |-> rows]

\* the mock has no branch for req.Status
MockRepository_Update(rows, id, req, t) ==
  IF id \notin DOMAIN rows
    THEN [err |-> ErrDeviceNotFound, device |-> NoDevice, rows |-> rows]
    ELSE LET device == [rows[id] EXCEPT
                          !.Name = Overwrite(@, req.Name),
                          !.Type = Overwrite(@, req.Type),
                          !.Location = Overwrite(@, req.Location),
                          !.Metadata = Overwrite(@, req.Metadata),
                          !.UpdatedAt = t]
         IN [err |-> "", device |-> device, rows |-> InsertRow(rows, device)]

MockRepository_Delete(rows, id) ==
  IF id \notin DOMAIN rows
    THEN [err |-> ErrDeviceNotFound, device |-> NoDevice, rows |-> rows]
    ELSE [err |-> "", device |-> NoDevice, rows |-> DeleteRow(rows, id)]

MockRepository_UpdateStatus(rows, id, newStatus, t) ==
  IF id \notin DOMAIN rows
    THEN [err |-> ErrDeviceNotFound, device |-> NoDevice, rows |-> rows]
    ELSE [err |-> "", device |-> NoDevice,
          rows |-> [rows EXCEPT ![id].Status = newStatus,
                                ![id].LastSeen = t,
                                ![id].UpdatedAt = t]]

\* RepositoryInterface: the call goes to the implementation the handler holds
Create(req, dbFails) ==
  IF repo = "Repository" THEN Repository_Create(devices, req, now + 1, dbFails)
  ELSE MockRepository_Create(devices, req, now + 1)

GetByID(id, dbFails) ==
  IF repo = "Repository" THEN Repository_GetByID(devices, id, dbFails)
  ELSE MockRepository_GetByID(devices, id)

Update(id, req, dbFails) ==
  IF repo = "Repository" THEN Repository_Update(devices, id, req, now + 1, dbFails)
  ELSE MockRepository_Update(devices, id, req, now + 1)

DeleteByID(id, dbFails) ==
  IF repo = "Repository" THEN Repository_Delete(devices, id, dbFails)
  ELSE MockRepository_Delete(devices, id)

UpdateStatus(id, newStatus, dbFails) ==
  IF repo = "Repository" THEN Repository_UpdateStatus(devices, id, newStatus, now + 1, dbFails)
  ELSE MockRepository_UpdateStatus(devices, id, newStatus, now + 1)

\* only the database of Repository can fail
MayFail(dbFails) == dbFails => repo = "Repository"

\* what the call returned and what the handler answered
Answer(op, id, req, result, code, error) ==
  lastOp' = [op |-> op, id |-> id, req |-> req, err |-> result.err,
             device |-> result.device, code |-> code, error |-> error]

NotCalled == [err |-> "", device |-> NoDevice, rows |-> devices]

\* POST /api/devices
CreateDevice(req, wellFormed, dbFails) ==
  /\ MayFail(dbFails)
  /\ now < MaxClock
  /\ IF ~wellFormed
       THEN /\ Answer("Create", EmptyID, NoRequest, NotCalled, 400, "Invalid request body")
            /\ UNCHANGED <<devices, now>>
       ELSE LET result == Create(req, dbFails)
            IN /\ devices' = result.rows
               /\ now' = now + 1
               /\ IF result.err # ""
                    THEN Answer("Create", EmptyID, NoRequest, result, 500,
                                "Failed to create device")
                    ELSE Answer("Create", result.device.ID, NoRequest, result, 201, "")
  /\ UNCHANGED <<repo, wireVars, matchVars, clientVars, lifeVars>>

\* GET /api/devices/:id
GetDevice(id, dbFails) ==
  /\ MayFail(dbFails)
  /\ IF id = EmptyID
       THEN Answer("GetByID", id, NoRequest, NotCalled, 400, "Device ID is required")
       ELSE LET result == GetByID(id, dbFails)
            IN IF result.err = "" THEN Answer("GetByID", id, NoRequest, result, 200, "")
               ELSE IF result.err = ErrDeviceNotFound
                 THEN Answer("GetByID", id, NoRequest, result, 404, ErrDeviceNotFound)
                 ELSE Answer("GetByID", id, NoRequest, result, 500, "Failed to get device")
  /\ UNCHANGED <<devices, now, repo, wireVars, matchVars, clientVars, lifeVars>>

\* PUT /api/devices/:id
UpdateDevice(id, req, wellFormed, dbFails) ==
  /\ MayFail(dbFails)
  /\ now < MaxClock
  /\ IF id = EmptyID
       THEN /\ Answer("Update", id, req, NotCalled, 400, "Device ID is required")
            /\ UNCHANGED <<devices, now>>
       ELSE IF ~wellFormed
         THEN /\ Answer("Update", id, NoRequest, NotCalled, 400, "Invalid request body")
              /\ UNCHANGED <<devices, now>>
         ELSE LET result == Update(id, req, dbFails)
              IN /\ devices' = result.rows
                 /\ now' = IF result.err = ErrDeviceNotFound THEN now ELSE now + 1
                 /\ IF result.err = "" THEN Answer("Update", id, req, result, 200, "")
                    ELSE IF result.err = ErrDeviceNotFound
                      THEN Answer("Update", id, req, result, 404, ErrDeviceNotFound)
                      ELSE Answer("Update", id, req, result, 500, "Failed to update device")
  /\ UNCHANGED <<repo, wireVars, matchVars, clientVars, lifeVars>>

\* DELETE /api/devices/:id
DeleteDevice(id, dbFails) ==
  /\ MayFail(dbFails)
  /\ IF id = EmptyID
       THEN /\ Answer("Delete", id, NoRequest, NotCalled, 400, "Device ID is required")
            /\ UNCHANGED devices
       ELSE LET result == DeleteByID(id, dbFails)
            IN /\ devices' = result.rows
               /\ IF result.err = ""
                    THEN Answer("Delete", id, NoRequest, result, 200, "")
                    ELSE IF result.err = ErrDeviceNotFound
                      THEN Answer("Delete", id, NoRequest, result, 404, ErrDeviceNotFound)
                      ELSE Answer("Delete", id, NoRequest, result, 500,
                                  "Failed to delete device")
  /\ UNCHANGED <<now, repo, wireVars, matchVars, clientVars, lifeVars>>

\* GET /api/devices/:id/newStatus: every error of the repository is answered alike
GetDeviceStatus(id, dbFails) ==
  /\ MayFail(dbFails)
  /\ LET result == GetByID(id, dbFails)
     IN IF result.err # ""
          THEN Answer("GetDeviceStatus", id, NoRequest, result, 404, "Device not found")
          ELSE Answer("GetDeviceStatus", id, NoRequest, result, 200, "")
  /\ UNCHANGED <<devices, now, repo, wireVars, matchVars, clientVars, lifeVars>>

\* a caller of RepositoryInterface.UpdateStatus
UpdateStatusCall(id, newStatus, dbFails) ==
  /\ MayFail(dbFails)
  /\ now < MaxClock
  /\ id # EmptyID
  /\ LET result == UpdateStatus(id, newStatus, dbFails)
     IN /\ devices' = result.rows
        /\ now' = now + 1
        /\ Answer("UpdateStatus", id, [NoRequest EXCEPT !.Status = newStatus], result, 0, "")
  /\ UNCHANGED <<repo, wireVars, matchVars, clientVars, lifeVars>>

InitRepo ==
  /\ mPattern = <<>>
  /\ mTopic = <<>>
  /\ mResult = "none"
  /\ mCalls = 0
  /\ autoReconnect = TRUE
  /\ brokerUp = TRUE
  /\ NewClient
  /\ NoApplication
  /\ sent = <<>>
  /\ payloads = <<>>
  /\ devices = EmptyMap
  /\ now = 0
  /\ lastOp = [op |-> "none"]
  /\ repo \in {"Repository", "MockRepository"}

NextRepo ==
  \/ \E req \in CreateRequests, wellFormed, dbFails \in BOOLEAN :
       CreateDevice(req, wellFormed, dbFails)
  \/ \E id \in RequestIDs, dbFails \in BOOLEAN : GetDevice(id, dbFails)
  \/ \E id \in RequestIDs, req \in UpdateRequests, wellFormed, dbFails \in BOOLEAN :
       UpdateDevice(id, req, wellFormed, dbFails)
  \/ \E id \in RequestIDs, dbFails \in BOOLEAN : DeleteDevice(id, dbFails)
  \/ \E id \in RequestIDs, dbFails \in BOOLEAN : GetDeviceStatus(id, dbFails)
  \/ \E id \in RequestIDs, newStatus \in StatusValues, dbFails \in BOOLEAN :
       UpdateStatusCall(id, newStatus, dbFails)

SpecRepo == InitRepo /\ [][NextRepo]_vars

----------------------------------------------------------------------------
(* Properties *)

Last(seq) == seq[Len(seq)]

ExecutionsOf(msg) == {i \in 1..Len(executed) : executed[i].msg = msg}

\* the step is a dispatch step of goroutine g that ran a handler
Ran(g) ==
  /\ g \in goroutines
  /\ g \notin goroutines'
  /\ Len(executed') = Len(executed) + 1
  /\ Last(executed').msg = g.msg

\* the step is the exact lookup or the wildcard scan of callback g
ReadsMap(g) ==
  /\ g \in goroutines
  /\ g.kind = "callback"
  /\ g \notin goroutines'

\* C1: when the exact lookup of a dispatch reads a registry that holds the
\* message's topic T as a literal pattern and also a wildcard pattern that
\* matches T, the dispatch invokes the handler registered under T, at once,
\* and no wildcard handler.
ExactMatchWins ==
  [][\A g \in goroutines :
       LET T == delivered[g.msg]
       IN ( /\ ReadsMap(g)
            /\ g.phase = "new"
            /\ T \in DOMAIN handlers
            /\ \E p \in DOMAIN handlers : p # T /\ topicMatches(p, T) )
          => /\ Ran(g)
             /\ Last(executed').handler = handlers[T]]_vars

\* a message on the literal topic ran twice, once for the exact route and
\* once for a wildcard route, both times with the exact handler
ExactMatchWinsWitness ==
  /\ DataTopic \in DOMAIN handlers
  /\ \E p \in DOMAIN handlers : p # DataTopic /\ topicMatches(p, DataTopic)
  /\ \E m \in 1..Len(delivered) :
       /\ delivered[m] = DataTopic
       /\ Cardinality(ExecutionsOf(m)) = 2
       /\ \A i \in ExecutionsOf(m) : executed[i].handler = handlers[DataTopic]

\* C2: for a pattern whose last segment is not '#', topicMatches is true
\* exactly when pattern and topic have the same number of segments and
\* every pattern segment is '+' or equal to the topic segment at its
\* position; empty segments are literal.
PlusMatchCharacterised ==
  LET pp == Split(mPattern)
      tp == Split(mTopic)
  IN (mCalls > 0 /\ Last(pp) # Hash)
     => /\ mResult \in {"true", "false"}
        /\ mResult = "true" <=>
             /\ Len(pp) = Len(tp)
             /\ \A i \in 1..Len(pp) : pp[i] = Plus \/ pp[i] = tp[i]

\* a '+' matched an empty segment, next to a literal segment
PlusMatchWitness ==
  /\ mCalls > 0
  /\ mPattern = <<"+", "/", "d">>
  /\ mTopic = <<"/", "d">>
  /\ mResult = "true"

\* C3: for a pattern whose last segment is '#', topicMatches is true exactly
\* when the topic has at least as many segments as the pattern has before
\* its final '#' and every one of those pattern segments is '+' or equal to
\* the topic segment at its position (a '#' before the final one is such a
\* segment and is compared as text); zero extra segments match, and the
\* bare '#' matches every topic.
HashMatchCharacterised ==
  LET pp == Split(mPattern)
      tp == Split(mTopic)
  IN (mCalls > 0 /\ Last(pp) = Hash)
     => /\ mResult \in {"true", "false"}
        /\ mResult = "true" <=>
             /\ Len(tp) >= Len(pp) - 1
             /\ \A i \in 1..(Len(pp) - 1) : pp[i] = Plus \/ pp[i] = tp[i]
        /\ mPattern = Hash => mResult = "true"

\* 'd/#' matched 'd': zero extra segments
HashMatchWitness ==
  /\ mCalls > 0
  /\ mPattern = <<"d", "/", "#">>
  /\ mTopic = <<"d">>
  /\ mResult = "true"

\* C4: topicMatches returns a boolean for every pair of strings (it never
\* panics or indexes out of range), a second call with the same arguments
\* returns the same result, and a call changes no client state.
TopicMatchesTotal ==
  /\ [](mCalls > 0 => mResult \in {"true", "false"})
  /\ [][mCalls > 0 => mResult' = mResult]_vars
  /\ [][mCalls' # mCalls => UNCHANGED clientVars]_vars

\* called twice with a pattern of more segments than the topic, the topic
\* being the empty string
TopicMatchesTotalWitness ==
  /\ mCalls >= 2
  /\ mTopic = <<>>
  /\ Len(Split(mPattern)) > 1
  /\ Last(Split(mPattern)) # Hash
  /\ mResult = "false"

\* C5: each inbound wire message causes exactly one handler execution:
\* never two, and one once all its dispatch goroutines have returned.
OneExecutionPerMessage ==
  \A m \in 1..Len(delivered) :
    /\ Cardinality(ExecutionsOf(m)) <= 1
    /\ (crashed = "no" /\ \A g \in goroutines : g.msg # m)
         => Cardinality(ExecutionsOf(m)) = 1

\* C6: with the three server subscriptions in place, a message on
\* devices/{id}/data is processed by handleDeviceData and a message on
\* devices/{id}/status by handleDeviceStatus, once its dispatch is over.
TelemetryAndStatusReachTheirHandler ==
  \A m \in 1..Len(delivered) :
    (crashed = "no" /\ \A g \in goroutines : g.msg # m)
    => /\ delivered[m] = DataTopic
            => \E i \in ExecutionsOf(m) :
                 HandlerEffect(executed[i].handler, delivered[m]) = "telemetry"
       /\ delivered[m] = StatusTopic
            => \E i \in ExecutionsOf(m) :
                 HandlerEffect(executed[i].handler, delivered[m]) = "status"

\* C7: a dispatch that returns has run a registered handler or the default
\* handler, and it has run the default handler when the topic equals no
\* registered pattern and matches none; a message without a matching route
\* runs the default handler.
DefaultWhenUnmatched ==
  [][\A g \in goroutines :
       LET T == delivered[g.msg]
       IN (g \notin goroutines' /\ [g EXCEPT !.phase = "scan"] \notin goroutines')
          => /\ Ran(g)
             /\ \/ Last(executed').handler = DefaultHandler
                \/ \E p \in DOMAIN handlers :
                     /\ p = T \/ topicMatches(p, T)
                     /\ Last(executed').handler = handlers[p]
             /\ (T \notin DOMAIN handlers /\ WildcardHits(handlers, T) = {})
                  => Last(executed').handler = DefaultHandler]_vars

\* the default handler ran for a message while patterns were registered and
\* none of them matched its topic
DefaultWhenUnmatchedWitness ==
  /\ handlers # EmptyMap
  /\ \E i \in 1..Len(executed) :
       /\ executed[i].handler = DefaultHandler
       /\ delivered[executed[i].msg] \notin DOMAIN handlers
       /\ WildcardHits(handlers, delivered[executed[i].msg]) = {}

\* C8: a panic raised by a registered handler does not terminate the
\* process; dispatch of the next message goes on.
HandlerPanicIsolated == crashed # "handler panic"

\* C9: the handler runs for messages of one topic in the order the
\* transport delivered them.
SameTopicOrderPreserved ==
  \A i, j \in 1..Len(executed) :
    (i < j /\ delivered[executed[i].msg] = delivered[executed[j].msg])
    => executed[i].msg <= executed[j].msg

\* C10: no dispatch callback reads c.handlers while a Subscribe or an
\* Unsubscribe is writing it.
MapAccessExclusive ==
  [][(\E g \in goroutines : ReadsMap(g)) => ~MapWriteInProgress]_vars


\* C11: the registry holds one handler per pattern. A Subscribe that stores
\* a handler under a pattern leaves the registry with that handler for the
\* pattern, and with the same patterns as before when the pattern was
\* registered already; a callback that runs a handler runs the one the
\* registry holds for a pattern that is or matches the topic.
LastSubscribeWins ==
  [][ /\ (SubscribeFinish /\ connected) =>
           /\ handlers'[apiCall.topic] = apiCall.handler
           /\ DOMAIN handlers' = DOMAIN handlers \cup {apiCall.topic}
           /\ apiCall.topic \in DOMAIN handlers =>
                Cardinality(DOMAIN handlers') = Cardinality(DOMAIN handlers)
      /\ \A g \in goroutines :
           (Ran(g) /\ g.kind = "callback") =>
              LET T == delivered[g.msg]
                  hits == {p \in DOMAIN handlers : p = T \/ topicMatches(p, T)}
              IN IF hits = {}
                 THEN Last(executed').handler = DefaultHandler
                 ELSE \E p \in hits : Last(executed').handler = handlers[p]
    ]_vars

LastSubscribeWinsWitness ==
  /\ DOMAIN handlers = {DataPattern}
  /\ handlers[DataPattern] = "handleAllDeviceMessages"
  /\ \E i, j \in 1..Len(executed) :
       /\ i < j
       /\ executed[i].handler = "handleDeviceData"
       /\ executed[j].handler = "handleAllDeviceMessages"

ConnectFailsFast == attempts > 0 => apiCall.op # "Connect"

\* C14: when the broker cannot be reached as Start begins, Start reaches
\* ListenAndServe in the end.
StartReachesListen ==
  (startPc = "start" /\ ~brokerUp) ~> (startPc = "listening")

\* C15: a Disconnect leaves the client not connected and the process alive,
\* and sends no disconnect request when the client was not connected.
DisconnectIdempotent ==
  [][DisconnectCall =>
       /\ ~IsConnected'
       /\ crashed' = "no"
       /\ ~IsConnected => disconnects' = disconnects
    ]_vars

DisconnectIdempotentWitness ==
  /\ apiResult = "nothing to disconnect"
  /\ disconnects = 1
  /\ ~IsConnected

\* C16: IsConnected() is true exactly when the transport's link is up.
IsConnectedIsLinkState == IsConnected <=> status = "connected"

\* C17: the loss of the link and the automatic reconnection leave the
\* registry, the transport's routes and the session's subscriptions as they
\* were.
SubscriptionsSurviveReconnect ==
  [][(BrokerFails \/ Reconnect) =>
       /\ handlers' = handlers
       /\ routes' = routes
       /\ brokerSubs' = brokerSubs
    ]_vars

SubscriptionsSurviveReconnectWitness ==
  /\ reconnectedAt > 0
  /\ apiCalls = 2
  /\ \E i \in 1..Len(executed) :
       /\ executed[i].msg >= reconnectedAt
       /\ executed[i].handler = "handleDeviceData"

\* C18: the wait loop of Subscribe sleeps at most connectionWaitAttempts
\* times; a Subscribe that finds the client still not connected has slept
\* that many times, returns an error, stores no handler and asks the
\* transport nothing; an Unsubscribe of a client that is not connected
\* returns an error and leaves the registry as it was.
SubscribeGivesUp ==
  [][ /\ polls' <= connectionWaitAttempts
      /\ (SubscribeFinish /\ ~connected) =>
           /\ polls = connectionWaitAttempts
           /\ apiResult' = "not connected after waiting"
           /\ handlers' = handlers
           /\ routes' = routes
           /\ brokerSubs' = brokerSubs
      /\ ((\E sub \in LifeSubscriptions : UnsubscribeCall(sub[1])) /\ ~connected) =>
           /\ apiResult' = "not connected"
           /\ handlers' = handlers
           /\ routes' = routes
           /\ brokerSubs' = brokerSubs
    ]_vars

SubscribeGivesUpWitness ==
  /\ apiResult = "not connected after waiting"
  /\ polls = connectionWaitAttempts
  /\ DOMAIN handlers = {DataPattern}

\* C19: no payload ends the process, and a payload with every required
\* field in order is processed in full whatever the handler was given
\* before.
HandlersSurviveGarbage ==
  /\ crashed = "no"
  /\ ( /\ lastHandled.handler = "handleDeviceData"
       /\ lastHandled.payload.kind = "object"
       /\ lastHandled.payload.device_id # ""
       /\ lastHandled.payload.timestamp = RFC3339 )
     => lastHandled.outcome = "ready for database storage"
  /\ ( /\ lastHandled.handler = "handleDeviceStatus"
       /\ lastHandled.payload.kind = "object"
       /\ lastHandled.payload.device_id # ""
       /\ lastHandled.payload.status # "" )
     => lastHandled.outcome = "ready for database update"

HandlersSurviveGarbageWitness ==
  /\ garbageSeen = {"handleDeviceData", "handleDeviceStatus"}
  /\ lastHandled.handler = "handleDeviceStatus"
  /\ lastHandled.outcome = "ready for database update"

\* C20: handleDeviceData gets as far as "ready for database storage" exactly
\* for the payloads that are a JSON object of strings with a device_id that
\* is not empty and a timestamp that is not empty and is a date, "T" and a
\* time with its zone; it returns in every case.
DataProcessedIffValid ==
  lastHandled.handler = "handleDeviceData" =>
    /\ crashed = "no"
    /\ lastHandled.outcome = "ready for database storage" <=>
         /\ lastHandled.payload.kind = "object"
         /\ lastHandled.payload.device_id # ""
         /\ lastHandled.payload.timestamp # <<>>
         /\ Len(lastHandled.payload.timestamp) = 3
         /\ lastHandled.payload.timestamp[1] = "date"
         /\ lastHandled.payload.timestamp[2] = "T"
         /\ lastHandled.payload.timestamp[3] = "time"

DataProcessedIffValidWitness ==
  /\ lastHandled.handler = "handleDeviceData"
  /\ lastHandled.outcome = "ready for database storage"
  /\ "handleDeviceData" \in garbageSeen

\* C21: handleDeviceStatus gets as far as "ready for database update"
\* exactly for the payloads that are a JSON object of strings with a
\* device_id and a status that are not empty; for these the last-seen time is
\* the parsed last_seen when it is a full RFC 3339 timestamp and the time of
\* receipt when it is absent or is not one.
StatusProcessedWithLastSeen ==
  lastHandled.handler = "handleDeviceStatus" =>
    /\ lastHandled.outcome = "ready for database update" <=>
         /\ lastHandled.payload.kind = "object"
         /\ lastHandled.payload.device_id # ""
         /\ lastHandled.payload.status # ""
    /\ lastHandled.outcome = "ready for database update" =>
         lastHandled.lastSeen = IF lastHandled.payload.last_seen = <<"date", "T", "time">>
                                THEN "last_seen"
                                ELSE "time.Now()"

StatusProcessedWithLastSeenWitness ==
  /\ lastHandled.handler = "handleDeviceStatus"
  /\ lastHandled.outcome = "ready for database update"
  /\ lastHandled.payload.last_seen = <<"date", "time">>
  /\ lastHandled.lastSeen = "time.Now()"

DatabaseErrors ==
  {"failed to create device", "failed to get device", "failed to update device",
   "failed to delete device", "failed to update device status"}

\* the call the step made reached the repository and the database answered
Answered(op) ==
  /\ lastOp'.op = op
  /\ lastOp'.id # EmptyID
  /\ lastOp'.error # "Invalid request body"
  /\ lastOp'.err \notin DatabaseErrors

UpdateStatusChecksDevice ==
  [][Answered("UpdateStatus")
       => /\ lastOp'.id \notin DOMAIN devices => lastOp'.err # ""
          /\ lastOp'.err = ""
               => /\ lastOp'.id \in DOMAIN devices'
                  /\ devices'[lastOp'.id].Status = lastOp'.req.Status]_vars

\* C25: GET /api/devices/:id/status answers 200 with the id and the status of
\* the device when the repository returns it, 404 only when the repository's
\* error is 'device not found', and 500 with 'Failed to get device status' for
\* any other error of the repository.
DeviceStatusCodes ==
  [][lastOp'.op = "GetDeviceStatus"
       => /\ lastOp'.err = ""
               => /\ lastOp'.code = 200
                  /\ lastOp'.device.ID = lastOp'.id
                  /\ lastOp'.device.Status = devices[lastOp'.id].Status
          /\ lastOp'.code = 404 <=> lastOp'.err = ErrDeviceNotFound
          /\ lastOp'.err \notin {"", ErrDeviceNotFound}
               => /\ lastOp'.code = 500
                  /\ lastOp'.error = "Failed to get device status"]_vars

\* the five fields a request can overwrite
Updatable == {"Name", "Type", "Location", "Status", "Metadata"}

\* C26: Update(id, req) on an existing device overwrites exactly those of
\* name, type, location, status and metadata whose request value is not empty,
\* leaves the others, the id and created_at as they were, and returns the
\* device with the same id; with an all-empty request only updated_at changes.
UpdateOverwritesNonEmpty ==
  [][(Answered("Update") /\ lastOp'.err = "" /\ lastOp'.id \in DOMAIN devices)
       => LET id == lastOp'.id
              req == lastOp'.req
          IN /\ DOMAIN devices' = DOMAIN devices
             /\ \A other \in DOMAIN devices \ {id} : devices'[other] = devices[other]
             /\ \A field \in Updatable :
                  devices'[id][field] =
                    IF req[field] # "" THEN req[field] ELSE devices[id][field]
             /\ devices'[id].ID = id
             /\ devices'[id].CreatedAt = devices[id].CreatedAt
             /\ devices'[id].LastSeen = devices[id].LastSeen
             /\ lastOp'.device = devices'[id]]_vars

\* the patterns of the registry that equal the topic or match it
Serving(registry, topic) ==
  {p \in DOMAIN registry : p = topic \/ topicMatches(p, topic)}

SubscribeErrorLeavesRegistry ==
  [][(SubscribeFinish /\ apiResult' # "ok") => handlers' = handlers]_vars

\* C29: on a Client that NewClient returned and Connect was never called on,
\* every public operation ends without a panic: IsConnected is false,
\* Disconnect does nothing, and Subscribe, Unsubscribe and Publish return a
\* 'not connected' error.
NewClientIsSafe ==
  client = "nil"
    => /\ crashed = "no"
       /\ ~IsConnected
       /\ disconnects = 0
       /\ apiResult \in {"none", "nothing to disconnect", "not connected",
                         "publish: not connected", "not connected after waiting"}

\* C30: a dispatch invokes a registered handler only under a pattern that
\* equals the topic or that topicMatches accepts for it, in the registry as
\* the dispatch reads it; a handler registered only under patterns that
\* neither equal nor match the topic is not invoked, whichever entry the
\* iteration meets first.
OnlyMatchingHandlersRun ==
  [][\A g \in goroutines :
       (Ran(g) /\ g.kind = "callback")
         => LET T == delivered[g.msg]
                invoked == Last(executed').handler
            IN /\ invoked # DefaultHandler
                    => \E p \in Serving(handlers, T) : handlers[p] = invoked
               /\ \A p \in DOMAIN handlers \ Serving(handlers, T) :
                    invoked = handlers[p]
                      => \E q \in Serving(handlers, T) : handlers[q] = invoked]_vars

\* the wildcard scan gave a message to a registered handler while another
\* pattern of the registry did not match its topic
OnlyMatchingHandlersRunWitness ==
  \E i \in 1..Len(executed) :
    LET T == delivered[executed[i].msg]
    IN /\ executed[i].handler # DefaultHandler
       /\ T \notin DOMAIN handlers
       /\ \E p \in Serving(handlers, T) : handlers[p] = executed[i].handler
       /\ DOMAIN handlers \ Serving(handlers, T) # {}

====
